---- MODULE Spec2Model ----
(***************************************************************************)
(* Model of ansiblelint/prerun.py: role FQRN resolution, module stub path  *)
(* computation and the mocking pass (_perform_mockings) acting on a        *)
(* filesystem with directories, files and symbolic links.                  *)
(*                                                                         *)
(* Python strings are sequences of one-character strings.  A path string   *)
(* is the sequence of its "/"-separated components, empty components       *)
(* (from "//" or a trailing "/") included; the operating system ignores    *)
(* the empty ones when it resolves the path (Norm).                        *)
(***************************************************************************)
EXTENDS Integers, Sequences, FiniteSets, TLC

\* ------------------------------------------------------------------ bounds
MaxIdLen == 6       \* longest module identifier drawn in SpecStub
MaxMocks == 2       \* longest mock_modules list of one run
MaxRuns  == 2       \* invocations of _perform_mockings in one behaviour

\* ----------------------------------------------------------------- strings
NL == "\n"

\* the characters matched by \w
WordCharSet ==
  { "a","b","c","d","e","f","g","h","i","j","k","l","m",
    "n","o","p","q","r","s","t","u","v","w","x","y","z",
    "A","B","C","D","E","F","G","H","I","J","K","L","M",
    "N","O","P","Q","R","S","T","U","V","W","X","Y","Z",
    "0","1","2","3","4","5","6","7","8","9","_" }

IsWord(s) == Len(s) > 0 /\ \A i \in 1..Len(s) : s[i] \in WordCharSet

Front(s) == SubSeq(s, 1, Len(s) - 1)

Last(s) == s[Len(s)]

\* "$" of the re module matches at the end of the string and also just
\* before a newline that ends the string
DollarEnds(s) == {s} \cup (IF Len(s) > 0 /\ Last(s) = NL THEN {Front(s)} ELSE {})

\* str.split(".")
RECURSIVE SplitDot(_)
SplitDot(s) ==
  IF \A i \in 1..Len(s) : s[i] # "."
  THEN <<s>>
  ELSE LET i == CHOOSE k \in 1..Len(s) :
                  s[k] = "." /\ \A j \in 1..(k-1) : s[j] # "."
       IN  <<SubSeq(s, 1, i-1)>> \o SplitDot(SubSeq(s, i+1, Len(s)))

StartsWithAt(s, i, lit) ==
  /\ i + Len(lit) - 1 <= Len(s)
  /\ \A k \in 1..Len(lit) : s[i + k - 1] = lit[k]

\* re.sub(r'(alt1|alt2)', '', s) for literal alternatives: scan from the
\* left, at each position try the alternatives in the order written
RECURSIVE ReSubAlt(_,_,_)
ReSubAlt(alts, s, i) ==
  IF i > Len(s) THEN <<>>
  ELSE LET hits == { k \in 1..Len(alts) : StartsWithAt(s, i, alts[k]) }
       IN  IF hits = {}
           THEN <<s[i]>> \o ReSubAlt(alts, s, i + 1)
           ELSE LET k == CHOOSE h \in hits : \A g \in hits : h <= g
                IN  ReSubAlt(alts, s, i + Len(alts[k]))

\* ------------------------------------------------- role FQRN (lines 16-45)
ANSIBLE_DASH      == <<"a","n","s","i","b","l","e","-">>
ANSIBLE_ROLE_DASH == <<"a","n","s","i","b","l","e","-","r","o","l","e","-">>

\* dict.get(key, default)
DictGet(d, k, default) == IF k \in DOMAIN d THEN d[k] ELSE default

\* re.match(r"^\w+ \w+", s): a prefix  word+ space word+
MatchesAuthorName(s) ==
  \E i \in 2..Len(s) :
     /\ IsWord(SubSeq(s, 1, i-1))
     /\ s[i] = " "
     /\ i + 1 <= Len(s)
     /\ s[i+1] \in WordCharSet

_get_galaxy_role_ns(galaxy_infos) ==
  LET ns0 == DictGet(galaxy_infos, "namespace", <<>>)
      ns1 == IF Len(ns0) = 0 THEN DictGet(galaxy_infos, "author", <<>>) ELSE ns0
  IN  IF MatchesAuthorName(ns1) THEN <<>> ELSE ns1 \o <<".">>

_get_galaxy_role_name(galaxy_infos) == DictGet(galaxy_infos, "role_name", <<>>)

_get_role_fqrn(galaxy_infos, cwd) ==
  LET role_namespace == _get_galaxy_role_ns(galaxy_infos)
      role_name0     == _get_galaxy_role_name(galaxy_infos)
      role_name      == IF Len(role_name0) = 0
                        THEN ReSubAlt(<<ANSIBLE_DASH, ANSIBLE_ROLE_DASH>>, cwd, 1)
                        ELSE role_name0
  IN  role_namespace \o role_name

\* ------------------------------------- module identifiers (lines 48-61)
\* re.match(r"^(\w+|\w+\.\w+\.[\.\w]+)$", module_name)
FullMatchModule(s) ==
  \/ IsWord(s)
  \/ \E i \in 2..Len(s) : \E j \in (i+2)..Len(s) :
        /\ s[i] = "." /\ s[j] = "."
        /\ IsWord(SubSeq(s, 1, i-1))
        /\ IsWord(SubSeq(s, i+1, j-1))
        /\ j < Len(s)
        /\ \A k \in (j+1)..Len(s) : s[k] \in WordCharSet \cup {"."}

MatchModule(s) == \E t \in DollarEnds(s) : FullMatchModule(t)

\* re.match(r"\w+\.\w+\.\w+$", role_name)
FullMatchRole(s) ==
  \E i \in 2..Len(s) : \E j \in (i+2)..Len(s) :
     /\ s[i] = "." /\ s[j] = "."
     /\ IsWord(SubSeq(s, 1, i-1))
     /\ IsWord(SubSeq(s, i+1, j-1))
     /\ IsWord(SubSeq(s, j+1, Len(s)))

MatchRole(s) == \E t \in DollarEnds(s) : FullMatchRole(t)

COLLECTIONS         == <<"c","o","l","l","e","c","t","i","o","n","s">>
ANSIBLE_COLLECTIONS ==
  <<"a","n","s","i","b","l","e","_","c","o","l","l","e","c","t","i","o","n","s">>
PLUGINS  == <<"p","l","u","g","i","n","s">>
MODULES  == <<"m","o","d","u","l","e","s">>
ROLES    == <<"r","o","l","e","s">>
DOT_PY   == <<".","p","y">>

\* Python's None where a str may also stand
PyNone == <<"<None>">>

\* options.cache_dir, an absolute path
cache_dir == << <<"c","a","c","h","e">> >>

\* '/'.join(parts), as the components between the surrounding "/"
JoinSlash(parts) == IF parts = <<>> THEN << <<>> >> ELSE parts

\* the directory (path) and the file (module_file) of a stub, lines 51-61
StubPaths(module_name) ==
  LET parts == SplitDot(module_name)
  IN  IF Len(parts) < 3
      THEN [path        |-> cache_dir \o <<MODULES>>,
            module_file |-> cache_dir \o <<MODULES, module_name \o DOT_PY>>,
            namespace   |-> PyNone,
            collection  |-> PyNone]
      ELSE LET dir == cache_dir \o <<COLLECTIONS, ANSIBLE_COLLECTIONS,
                                     parts[1], parts[2], PLUGINS, MODULES>>
                        \o JoinSlash(SubSeq(parts, 3, Len(parts) - 1))
           IN [path        |-> dir,
               module_file |-> dir \o <<Last(parts) \o DOT_PY>>,
               namespace   |-> parts[1],
               collection  |-> parts[2]]

\* the directory of a mocked role, lines 91-95
RolePath(role_name) ==
  IF MatchRole(role_name)
  THEN LET parts == SplitDot(role_name)
       IN  cache_dir \o <<COLLECTIONS, ANSIBLE_COLLECTIONS,
                          parts[1], parts[2], ROLES, parts[3], <<>> >>
  ELSE cache_dir \o <<ROLES, role_name>>

\* -------------------------------------------------------------- filesystem
\* A filesystem maps the absolute normalised paths of its entries to nodes;
\* the root <<>> is always a directory.
NoBody == [name |-> <<>>, namespace |-> PyNone, collection |-> PyNone]

DirNode        == [kind |-> "dir",  target |-> <<>>, body |-> NoBody]
FileNode(b)    == [kind |-> "file", target |-> <<>>, body |-> b]
LinkNode(t)    == [kind |-> "link", target |-> t,    body |-> NoBody]

\* the kernel skips empty components
Norm(p) == SelectSeq(p, LAMBDA c : c # <<>>)

IsPrefix(a, b) == Len(a) <= Len(b) /\ SubSeq(b, 1, Len(a)) = a

\* symbolic links followed before path resolution gives up (ELOOP)
MaxLinkHops == 8

\* Path resolution: the physical location of the entry a path names.  The
\* last component is followed through a symbolic link only when followLast.
RECURSIVE Walk(_,_,_,_,_)
Walk(f, cur, rest, followLast, hops) ==
  IF rest = <<>> THEN [err |-> "", phys |-> cur]
  ELSE LET nxt  == Append(cur, Head(rest))
           tl   == Tail(rest)
           last == tl = <<>>
       IN  IF nxt \notin DOMAIN f
           THEN IF last THEN [err |-> "", phys |-> nxt]
                        ELSE [err |-> "ENOENT", phys |-> nxt]
           ELSE IF f[nxt].kind = "dir" THEN Walk(f, nxt, tl, followLast, hops)
           ELSE IF f[nxt].kind = "file"
                THEN IF last THEN [err |-> "", phys |-> nxt]
                             ELSE [err |-> "ENOTDIR", phys |-> nxt]
           ELSE IF last /\ ~followLast THEN [err |-> "", phys |-> nxt]
           ELSE IF hops = 0 THEN [err |-> "ELOOP", phys |-> nxt]
           ELSE Walk(f, <<>>, f[nxt].target \o tl, followLast, hops - 1)

Present(f, phys) == phys = <<>> \/ phys \in DOMAIN f

KindAt(f, phys) == IF phys = <<>> THEN "dir" ELSE f[phys].kind

\* os.path.exists / Path.exists: stat, following symbolic links
Exists(f, p) ==
  LET r == Walk(f, <<>>, Norm(p), TRUE, MaxLinkHops)
  IN  r.err = "" /\ Present(f, r.phys)

\* os.path.isdir / Path.is_dir
IsDir(f, p) ==
  LET r == Walk(f, <<>>, Norm(p), TRUE, MaxLinkHops)
  IN  r.err = "" /\ Present(f, r.phys) /\ KindAt(f, r.phys) = "dir"

Put(f, phys, node) ==
  [q \in DOMAIN f \cup {phys} |-> IF q = phys THEN node ELSE f[q]]

Drop(f, phys) == [q \in DOMAIN f \ {phys} |-> f[q]]

\* os.mkdir
Mkdir(f, p) ==
  LET r == Walk(f, <<>>, Norm(p), FALSE, MaxLinkHops)
  IN  IF r.err # "" THEN [fs |-> f, err |-> r.err]
      ELSE IF Present(f, r.phys) THEN [fs |-> f, err |-> "EEXIST"]
      ELSE [fs |-> Put(f, r.phys, DirNode), err |-> ""]

\* os.makedirs(name, exist_ok=True)
RECURSIVE Makedirs(_,_)
Makedirs(f, p) ==
  LET name == Norm(p)
      head == Front(name)
  IN  IF name = <<>> THEN [fs |-> f, err |-> ""]
      ELSE LET r1 == IF head # <<>> /\ ~Exists(f, head)
                     THEN Makedirs(f, head)
                     ELSE [fs |-> f, err |-> ""]
           IN  IF r1.err \notin {"", "EEXIST"} THEN r1
               ELSE LET r2 == Mkdir(r1.fs, name)
                    IN  IF r2.err = "" THEN r2
                        ELSE IF IsDir(r1.fs, name)
                             THEN [fs |-> r1.fs, err |-> ""]
                             ELSE r2

\* pathlib.Path.mkdir(parents=True, exist_ok=True)
RECURSIVE PathMkdir(_,_)
PathMkdir(f, p) ==
  LET name == Norm(p)
      r    == Mkdir(f, name)
  IN  IF r.err = "" THEN r
      ELSE IF r.err = "ENOENT"
           THEN IF name = <<>> THEN r
                ELSE LET r1 == PathMkdir(f, Front(name))
                     IN  IF r1.err # "" THEN r1
                         ELSE LET r2 == Mkdir(r1.fs, name)
                              IN  IF r2.err \in {"", "ENOENT"} THEN r2
                                  ELSE IF IsDir(r1.fs, name)
                                       THEN [fs |-> r1.fs, err |-> ""]
                                       ELSE r2
           ELSE IF IsDir(f, name) THEN [fs |-> f, err |-> ""] ELSE r

\* open(filename, "w") and write(body)
OpenWrite(f, p, body) ==
  LET r == Walk(f, <<>>, Norm(p), TRUE, MaxLinkHops)
  IN  IF r.err # "" THEN [fs |-> f, err |-> r.err]
      ELSE IF Present(f, r.phys) /\ KindAt(f, r.phys) = "dir"
           THEN [fs |-> f, err |-> "EISDIR"]
      ELSE [fs |-> Put(f, r.phys, FileNode(body)), err |-> ""]

\* os.readlink returns a str
Readlink(f, p) ==
  LET r == Walk(f, <<>>, Norm(p), FALSE, MaxLinkHops)
  IN  IF r.err # "" THEN [err |-> r.err, val |-> <<>>]
      ELSE IF ~Present(f, r.phys) THEN [err |-> "ENOENT", val |-> <<>>]
      ELSE IF KindAt(f, r.phys) # "link" THEN [err |-> "EINVAL", val |-> <<>>]
      ELSE [err |-> "", val |-> f[r.phys].target]

\* Path.unlink
Unlink(f, p) ==
  LET r == Walk(f, <<>>, Norm(p), FALSE, MaxLinkHops)
  IN  IF r.err # "" THEN [fs |-> f, err |-> r.err]
      ELSE IF ~Present(f, r.phys) THEN [fs |-> f, err |-> "ENOENT"]
      ELSE IF KindAt(f, r.phys) = "dir" THEN [fs |-> f, err |-> "EISDIR"]
      ELSE [fs |-> Drop(f, r.phys), err |-> ""]

\* Path.symlink_to
Symlink(f, p, target) ==
  LET r == Walk(f, <<>>, Norm(p), FALSE, MaxLinkHops)
  IN  IF r.err # "" THEN [fs |-> f, err |-> r.err]
      ELSE IF Present(f, r.phys) THEN [fs |-> f, err |-> "EEXIST"]
      ELSE [fs |-> Put(f, r.phys, LinkNode(target)), err |-> ""]

\* the tree below and including root disappears (the user deletes a project)
RemoveTree(f, root) == [q \in {x \in DOMAIN f : ~IsPrefix(root, x)} |-> f[q]]

\* ------------------------------------------------------ the mocking pass
VARIABLES
  fs,          \* the filesystem
  pc,          \* position of the process in _perform_mockings
  options,     \* ansiblelint.config.options of this invocation
  cwd,         \* working directory of this invocation
  galaxy_yml,  \* ./galaxy.yml of this invocation, as the loader returns it
  roles_left,  \* entries of options.mock_roles still to be processed
  mods_left,   \* entries of options.mock_modules still to be processed
  rc,          \* exit status given to sys.exit, NoExit if none
  runs,        \* invocations started so far
  link0,       \* history: the entry at the link path when this invocation started
  prev,        \* history: outcome of the invocation directly before, and
               \*          whether this one repeats its configuration
  module_name, \* SpecStub: the identifier given to _make_module_stub
  stub,        \* SpecStub: what _make_module_stub decided for it
  galaxy_infos,\* SpecFqrn: the role metadata
  cwd_name,    \* SpecFqrn: name of the working directory
  fqrn         \* SpecFqrn: the result of _get_role_fqrn

passVars == <<fs, pc, options, cwd, galaxy_yml, roles_left, mods_left, rc,
              runs, link0, prev>>
stubVars == <<module_name, stub>>
fqrnVars == <<galaxy_infos, cwd_name, fqrn>>
vars     == <<passVars, stubVars, fqrnVars>>

INVALID_CONFIG_RC == "INVALID_CONFIG_RC"   \* ansiblelint.constants
NoExit            == "none"

\* the projects on disk, absolute paths
ProjA == << <<"A">> >>
ProjB == << <<"B">> >>
Projects == {ProjA, ProjB}

\* options.project_dir: relative (".") or absolute
Dot == [abs |-> FALSE, comps |-> <<>>]
AbsDir(p) == [abs |-> TRUE, comps |-> p]
ProjectDirs == {Dot, AbsDir(ProjA)}

\* pathlib.Path(project_dir).absolute(): joined to the working directory
\* unless already absolute; symbolic links are not resolved
Absolute(c, d) == IF d.abs THEN d.comps ELSE c \o d.comps

\* the identifiers the configuration is drawn from
BareRole  == <<"r">>
OwnRole   == <<"n",".","c",".","r">>
OwnModule == <<"n",".","c",".","m">>
BadModule == <<"n",".","c">>
ModuleIds == { OwnModule, BadModule }

\* the lists of length at most n without repetition
RECURSIVE SeqsUpTo(_,_)
SeqsUpTo(S, n) ==
  IF n = 0 THEN {<<>>}
  ELSE LET shorter == SeqsUpTo(S, n - 1)
           more(q) == { Append(q, x) : x \in S \ {q[i] : i \in DOMAIN q} }
       IN  shorter \cup UNION { more(q) : q \in shorter }

MockRoleLists   == { <<>>, <<BareRole, OwnRole>> }
MockModuleLists == SeqsUpTo(ModuleIds, MaxMocks)

\* galaxy.yml: absent, or what yaml_from_file returns for it
NoFile   == [exists |-> FALSE, doc |-> [none |-> TRUE]]
Loaded(d) == [exists |-> TRUE, doc |-> d]
GalaxyFiles ==
  { NoFile,
    Loaded([none |-> TRUE]),
    Loaded([namespace |-> <<"n">>]),
    Loaded([namespace |-> <<>>, name |-> <<"c">>]),
    Loaded([namespace |-> <<"n">>, name |-> <<"c">>]) }

\* SelfCollection with line 111 as "if not namespace and not collection"
SelfCollection_EitherField(g) ==
  IF ~g.exists THEN [applies |-> FALSE, namespace |-> PyNone, collection |-> PyNone]
  ELSE IF "none" \in DOMAIN g.doc
       THEN [applies |-> FALSE, namespace |-> PyNone, collection |-> PyNone]
  ELSE LET namespace  == DictGet(g.doc, "namespace", PyNone)
           collection == DictGet(g.doc, "name", PyNone)
           falsy(v)   == v = PyNone \/ v = <<>>
       IN  [applies    |-> ~(falsy(namespace) /\ falsy(collection)),
            namespace  |-> namespace,
            collection |-> collection]

\* lines 103-112: whether the project is a collection to be linked
SelfCollection(g) ==
  IF ~g.exists THEN [applies |-> FALSE, namespace |-> PyNone, collection |-> PyNone]
  ELSE IF "none" \in DOMAIN g.doc
       THEN [applies |-> FALSE, namespace |-> PyNone, collection |-> PyNone]
  ELSE LET namespace  == DictGet(g.doc, "namespace", PyNone)
           collection == DictGet(g.doc, "name", PyNone)
           falsy(v)   == v = PyNone \/ v = <<>>
       IN  [applies    |-> ~(falsy(namespace) \/ falsy(collection)),
            namespace  |-> namespace,
            collection |-> collection]

CollectionsDir(namespace) ==
  cache_dir \o <<COLLECTIONS, ANSIBLE_COLLECTIONS, namespace>>

LinkPath(namespace, collection) == CollectionsDir(namespace) \o <<collection>>

\* os.readlink(link_path) != target compares a str with a pathlib.Path
PyStr(v)  == [type |-> "str",  val |-> v]
PyPath(v) == [type |-> "Path", val |-> v]
PyNe(a, b) == a # b

\* _make_module_stub with lines 70-71 logging the error and returning
_make_module_stub_NoExit(f, name) ==
  IF MatchModule(name)
  THEN LET sp == StubPaths(name)
           r1 == Makedirs(f, sp.path)
       IN  IF r1.err # "" THEN [fs |-> f, status |-> "raised"]
           ELSE LET body == [name       |-> sp.module_file,
                             namespace  |-> sp.namespace,
                             collection |-> sp.collection]
                    r2   == OpenWrite(r1.fs, sp.module_file, body)
                IN  IF r2.err # "" THEN [fs |-> r1.fs, status |-> "raised"]
                    ELSE [fs |-> r2.fs, status |-> "ok"]
  ELSE [fs |-> f, status |-> "ok"]

\* lines 48-71
_make_module_stub(f, name) ==
  IF MatchModule(name)
  THEN LET sp == StubPaths(name)
           r1 == Makedirs(f, sp.path)
       IN  IF r1.err # "" THEN [fs |-> f, status |-> "raised"]
           ELSE LET body == [name       |-> sp.module_file,
                             namespace  |-> sp.namespace,
                             collection |-> sp.collection]
                    r2   == OpenWrite(r1.fs, sp.module_file, body)
                IN  IF r2.err # "" THEN [fs |-> r1.fs, status |-> "raised"]
                    ELSE [fs |-> r2.fs, status |-> "ok"]
  ELSE [fs |-> f, status |-> "exited"]

\* lines 113-120: what the linking step does before it changes the link
LinkStep(f, namespace, collection, target) ==
  LET p  == CollectionsDir(namespace)
      r1 == PathMkdir(f, p)
      link_path == p \o <<collection>>
  IN  IF r1.err # "" THEN [fs |-> r1.fs, next |-> "raised"]
      ELSE IF ~Exists(r1.fs, link_path)
           THEN [fs |-> r1.fs, next |-> "symlink"]
      ELSE LET rl == Readlink(r1.fs, link_path)
           IN  IF rl.err # "" THEN [fs |-> r1.fs, next |-> "raised"]
               ELSE IF PyNe(PyStr(rl.val), PyPath(target))
                    THEN [fs |-> r1.fs,
                          next |-> IF Exists(r1.fs, link_path)
                                   THEN "unlink" ELSE "symlink"]
                    ELSE [fs |-> r1.fs, next |-> "done"]

Terminal == {"idle", "done", "exited", "raised"}

AbsentNode == [kind |-> "absent", target |-> <<>>, body |-> NoBody]

\* lstat of a path: the entry itself, AbsentNode if there is none
EntryAt(f, p) ==
  LET r == Walk(f, <<>>, Norm(p), FALSE, MaxLinkHops)
  IN  IF r.err = "" /\ r.phys \in DOMAIN f THEN f[r.phys] ELSE AbsentNode

\* the entry at the place of the self-collection link, if linking applies
LinkEntry(f, g) ==
  LET sc == SelfCollection(g)
  IN  IF sc.applies THEN EntryAt(f, LinkPath(sc.namespace, sc.collection))
      ELSE AbsentNode

StartRun(roles, mods, g, c, d) ==
  /\ pc \in Terminal
  /\ runs < MaxRuns
  /\ IsDir(fs, c)
  /\ IsDir(fs, Absolute(c, d))
  /\ runs' = runs + 1
  /\ options' = [mock_roles |-> roles, mock_modules |-> mods, project_dir |-> d]
  /\ cwd' = c
  /\ galaxy_yml' = g
  /\ roles_left' = roles
  /\ mods_left' = mods
  /\ rc' = NoExit
  /\ link0' = LinkEntry(fs, g)
  /\ prev' = [out    |-> pc,
              repeat |-> /\ pc # "idle"
                         /\ options = [mock_roles |-> roles, mock_modules |-> mods,
                                       project_dir |-> d]
                         /\ cwd = c
                         /\ galaxy_yml = g]
  /\ pc' = IF roles = <<>> THEN "modules" ELSE "roles"
  /\ UNCHANGED <<fs, stubVars, fqrnVars>>

\* lines 90-96, one iteration
MockRole ==
  /\ pc = "roles"
  /\ roles_left # <<>>
  /\ LET r == Makedirs(fs, RolePath(Head(roles_left)))
     IN  /\ fs' = r.fs
         /\ IF r.err # ""
            THEN pc' = "raised" /\ UNCHANGED roles_left
            ELSE /\ roles_left' = Tail(roles_left)
                 /\ pc' = IF Tail(roles_left) = <<>> THEN "modules" ELSE "roles"
  /\ UNCHANGED <<options, cwd, galaxy_yml, mods_left, rc, runs, link0, prev,
                 stubVars, fqrnVars>>

\* lines 98-100, one iteration
MakeModuleStub ==
  /\ pc = "modules"
  /\ mods_left # <<>>
  /\ LET r == _make_module_stub(fs, Head(mods_left))
     IN  /\ fs' = r.fs
         /\ IF r.status = "ok"
            THEN mods_left' = Tail(mods_left) /\ UNCHANGED <<pc, rc>>
            ELSE /\ pc' = r.status
                 /\ rc' = IF r.status = "exited" THEN INVALID_CONFIG_RC ELSE rc
                 /\ UNCHANGED mods_left
  /\ UNCHANGED <<options, cwd, galaxy_yml, roles_left, runs, link0, prev,
                 stubVars, fqrnVars>>

\* lines 102-120
LinkCollection ==
  /\ pc = "modules"
  /\ mods_left = <<>>
  /\ LET sc == SelfCollection(galaxy_yml)
     IN  IF ~sc.applies
         THEN pc' = "done" /\ UNCHANGED fs
         ELSE LET r == LinkStep(fs, sc.namespace, sc.collection,
                                Absolute(cwd, options.project_dir))
              IN  fs' = r.fs /\ pc' = r.next
  /\ UNCHANGED <<options, cwd, galaxy_yml, roles_left, mods_left, rc, runs,
                 link0, prev, stubVars, fqrnVars>>

\* line 121
UnlinkStale ==
  /\ pc = "unlink"
  /\ LET sc == SelfCollection(galaxy_yml)
         r  == Unlink(fs, LinkPath(sc.namespace, sc.collection))
     IN  /\ fs' = r.fs
         /\ pc' = IF r.err # "" THEN "raised" ELSE "symlink"
  /\ UNCHANGED <<options, cwd, galaxy_yml, roles_left, mods_left, rc, runs,
                 link0, prev, stubVars, fqrnVars>>

\* line 122
CreateLink ==
  /\ pc = "symlink"
  /\ LET sc == SelfCollection(galaxy_yml)
         r  == Symlink(fs, LinkPath(sc.namespace, sc.collection),
                       Absolute(cwd, options.project_dir))
     IN  /\ fs' = r.fs
         /\ pc' = IF r.err # "" THEN "raised" ELSE "done"
  /\ UNCHANGED <<options, cwd, galaxy_yml, roles_left, mods_left, rc, runs,
                 link0, prev, stubVars, fqrnVars>>

\* between invocations the user deletes a project directory
RemoveProject(p) ==
  /\ pc \in Terminal
  /\ runs < MaxRuns
  /\ p \in DOMAIN fs
  /\ fs' = RemoveTree(fs, p)
  /\ pc' = "idle"
  /\ UNCHANGED <<options, cwd, galaxy_yml, roles_left, mods_left, rc, runs,
                 link0, prev, stubVars, fqrnVars>>

InitFs == [q \in Projects |-> DirNode]

IdleStub == /\ module_name = <<>>
            /\ stub = [status |-> "none", module_file |-> <<>>]

IdleFqrn == /\ galaxy_infos = [role_name |-> <<>>]
            /\ cwd_name = <<>>
            /\ fqrn = PyNone

IdlePass ==
  /\ fs = InitFs
  /\ pc = "idle"
  /\ options = [mock_roles |-> <<>>, mock_modules |-> <<>>, project_dir |-> Dot]
  /\ cwd = ProjA
  /\ galaxy_yml = NoFile
  /\ roles_left = <<>>
  /\ mods_left = <<>>
  /\ rc = NoExit
  /\ runs = 0
  /\ link0 = AbsentNode
  /\ prev = [out |-> "idle", repeat |-> FALSE]

Init == IdlePass /\ IdleStub /\ IdleFqrn

Next ==
  \/ \E roles \in MockRoleLists, mods \in MockModuleLists, g \in GalaxyFiles,
        c \in Projects, d \in ProjectDirs : StartRun(roles, mods, g, c, d)
  \/ MockRole
  \/ MakeModuleStub
  \/ LinkCollection
  \/ UnlinkStale
  \/ CreateLink
  \/ \E p \in Projects : RemoveProject(p)

Spec == Init /\ [][Next]_vars

\* ------------------------------------------- _make_module_stub on its own
\* the identifiers: every string of at most MaxIdLen of these characters
IdChars == {"a", ".", "!", NL}

RECURSIVE StringsUpTo(_,_)
StringsUpTo(C, n) ==
  IF n = 0 THEN {<<>>}
  ELSE LET shorter == StringsUpTo(C, n - 1)
       IN  shorter \cup { Append(q, x) : q \in shorter, x \in C }

Ids == StringsUpTo(IdChars, MaxIdLen)

InitStub ==
  /\ IdlePass /\ IdleFqrn
  /\ module_name \in Ids
  /\ stub = [status |-> "none", module_file |-> <<>>]

\* one call of _make_module_stub(module_name) on the fresh cache
CallMakeModuleStub ==
  /\ stub.status = "none"
  /\ LET r == _make_module_stub(fs, module_name)
     IN  /\ fs' = r.fs
         /\ stub' = [status      |-> r.status,
                     module_file |-> IF r.status = "ok"
                                     THEN StubPaths(module_name).module_file
                                     ELSE <<>>]
         /\ rc' = IF r.status = "exited" THEN INVALID_CONFIG_RC ELSE rc
  /\ UNCHANGED <<pc, options, cwd, galaxy_yml, roles_left, mods_left, runs,
                 link0, prev, module_name, fqrnVars>>

NextStub == CallMakeModuleStub

SpecStub == InitStub /\ [][NextStub]_vars

\* ---------------------------------------------- _get_role_fqrn on its own
WEB      == <<"w","e","b">>
MYROLE   == <<"m","y","r","o","l","e">>
ACME     == <<"a","c","m","e">>
JDOE     == <<"j","d","o","e">>
JANE_DOE == <<"J","a","n","e"," ","D","o","e">>

\* meta/main.yml galaxy_info: each key absent, empty or set
MetaKeys == {"namespace", "author", "role_name"}
MetaValues(k) ==
  IF k = "namespace" THEN {<<>>, ACME}
  ELSE IF k = "author" THEN {<<>>, JDOE, JANE_DOE}
  ELSE {<<>>, WEB}
AllMetaValues == UNION { MetaValues(k) : k \in MetaKeys }
GalaxyInfos ==
  UNION { { d \in [K -> AllMetaValues] : \A k \in K : d[k] \in MetaValues(k) }
          : K \in SUBSET MetaKeys }

\* pathlib.Path(".").absolute().name
CwdNames == { MYROLE, WEB, ANSIBLE_DASH \o WEB, ANSIBLE_ROLE_DASH \o WEB,
              <<"m","y","-">> \o ANSIBLE_DASH \o WEB }

InitFqrn ==
  /\ IdlePass /\ IdleStub
  /\ galaxy_infos \in GalaxyInfos
  /\ cwd_name \in CwdNames
  /\ fqrn = PyNone

CallGetRoleFqrn ==
  /\ fqrn = PyNone
  /\ fqrn' = _get_role_fqrn(galaxy_infos, cwd_name)
  /\ UNCHANGED <<passVars, stubVars, galaxy_infos, cwd_name>>

NextFqrn == CallGetRoleFqrn

SpecFqrn == InitFqrn /\ [][NextFqrn]_vars

\* ================================================================= claims
\* what the current invocation links, and where
Target    == Absolute(cwd, options.project_dir)
LinksSelf == SelfCollection(galaxy_yml).applies
SelfLink  == LinkPath(SelfCollection(galaxy_yml).namespace,
                      SelfCollection(galaxy_yml).collection)
Returned  == pc \in {"done", "raised"}

\* C1 - self-healing: an invocation that finds, at the place of the
\* self-collection link, a symbolic link to another target than the absolute
\* project_dir (a target that no longer exists included) completes, and
\* afterwards the entry is a symbolic link to the absolute project_dir.
C1_SelfHealing ==
  (Returned /\ LinksSelf /\ link0.kind = "link" /\ link0.target # Target)
    => (pc = "done" /\ EntryAt(fs, SelfLink) = LinkNode(Target))

\* C2 - idempotence: two invocations in succession with the same galaxy.yml,
\* cache_dir and project_dir both succeed, and the entry at the link path
\* after the second is the one symbolic link to the absolute project_dir
\* that the first left there.
C2_Idempotent ==
  (Returned /\ LinksSelf /\ prev.repeat)
    => /\ prev.out = "done"
       /\ pc = "done"
       /\ link0 = LinkNode(Target)
       /\ EntryAt(fs, SelfLink) = link0

\* C3 - an identifier that fails the validity pattern ends the process with
\* INVALID_CONFIG_RC and changes nothing on disk; after the exit nothing of
\* that invocation happens any more: no later entry of mock_modules is
\* processed and the linking step is not performed.
C3_FatalInvalid ==
  [][ /\ (pc = "modules" /\ mods_left # <<>> /\ ~MatchModule(Head(mods_left)))
         => (pc' = "exited" /\ rc' = INVALID_CONFIG_RC /\ fs' = fs
             /\ mods_left' = mods_left)
      /\ (pc = "exited")
         => (runs' = runs + 1 \/ (pc' = "idle" /\ mods_left' = mods_left)) ]_vars

\* C3 witness: the process has exited on an invalid identifier with a later
\* entry still unprocessed and a self-collection it would have linked.
C3_Witness ==
  /\ pc = "exited" /\ rc = INVALID_CONFIG_RC
  /\ Len(mods_left) >= 2 /\ ~MatchModule(Head(mods_left))
  /\ LinksSelf
  /\ EntryAt(fs, SelfLink) = AbsentNode

\* a string is one non-empty word token, or three or more non-empty word
\* tokens separated by single dots
WellFormedId(s) ==
  LET parts == SplitDot(s)
  IN  /\ Len(parts) = 1 \/ Len(parts) >= 3
      /\ \A i \in 1..Len(parts) : IsWord(parts[i])

\* C4 - _make_module_stub accepts an identifier exactly if it is one word
\* token or three or more word tokens separated by single dots, and rejects
\* every other shape by the fatal path.
C4_AcceptsExactlyWellFormed ==
  stub.status # "none"
    => /\ WellFormedId(module_name) => stub.status = "ok"
       /\ ~WellFormedId(module_name) => stub.status = "exited"

AcceptedIds == { s \in Ids : MatchModule(s) }
StubFileOf  == [ s \in AcceptedIds |-> StubPaths(s).module_file ]

\* C5 - two distinct identifiers that _make_module_stub accepts never have
\* the same stub file path.
C5_StubPathInjective ==
  stub.status = "ok"
    => \A other \in AcceptedIds \ {module_name} :
          StubFileOf[other] # stub.module_file

\* the namespace the metadata resolves to: namespace, else author, else
\* empty; a human full name is discarded
NamespaceIsEmpty(gi) ==
  LET ns0 == DictGet(gi, "namespace", <<>>)
      ns1 == IF ns0 = <<>> THEN DictGet(gi, "author", <<>>) ELSE ns0
  IN  ns1 = <<>> \/ MatchesAuthorName(ns1)

\* C6 - with an empty resolved namespace the FQRN is the role name alone,
\* with no leading dot; empty metadata in a directory 'myrole' gives 'myrole'.
C6_NoDotForEmptyNamespace ==
  (fqrn # PyNone /\ NamespaceIsEmpty(galaxy_infos))
    => /\ fqrn # <<>> => fqrn[1] # "."
       /\ (DictGet(galaxy_infos, "role_name", <<>>) = <<>> /\ cwd_name = MYROLE)
             => fqrn = MYROLE

\* C7 - with an empty role_name the name is the working directory's name
\* without the 'ansible-' or 'ansible-role-' prefix token: author 'Jane Doe',
\* no namespace, no role_name, in 'ansible-role-web', resolves to 'web'.
C7_DirectoryFallback ==
  ( /\ fqrn # PyNone
    /\ DictGet(galaxy_infos, "namespace", <<>>) = <<>>
    /\ DictGet(galaxy_infos, "author", <<>>) = JANE_DOE
    /\ DictGet(galaxy_infos, "role_name", <<>>) = <<>>
    /\ cwd_name \in {ANSIBLE_DASH \o WEB, ANSIBLE_ROLE_DASH \o WEB} )
    => fqrn = WEB

\* galaxy.yml is absent, loads as nothing, or lacks a non-empty namespace or
\* a non-empty name
LacksSelfMetadata(g) ==
  \/ ~g.exists
  \/ "none" \in DOMAIN g.doc
  \/ "namespace" \notin DOMAIN g.doc
  \/ "name" \notin DOMAIN g.doc
  \/ g.doc["namespace"] = <<>>
  \/ g.doc["name"] = <<>>

\* C8 - when galaxy.yml is absent, empty, or lacks a non-empty namespace or
\* name, the linking step returns normally and changes nothing on disk.
C8_LinkingNoop ==
  [][ (pc = "modules" /\ mods_left = <<>> /\ LacksSelfMetadata(galaxy_yml))
        => (pc' = "done" /\ fs' = fs) ]_vars

\* C8 witness: an invocation with mocks and a galaxy.yml that names no
\* collection has returned.
C8_Witness ==
  /\ pc = "done"
  /\ galaxy_yml.exists /\ LacksSelfMetadata(galaxy_yml)
  /\ options.mock_roles # <<>> /\ options.mock_modules # <<>>

\* C9 - when the entry at the link path already is a symbolic link to the
\* absolute project_dir, the linking step neither unlinks nor creates a
\* link: it returns with the filesystem as it was.
C9_NoReplaceWhenCurrent ==
  [][ (pc = "modules" /\ mods_left = <<>> /\ LinksSelf
       /\ EntryAt(fs, SelfLink) = LinkNode(Target))
        => (pc' = "done" /\ fs' = fs) ]_vars

\* C10 - nothing is ever created inside a project directory: every entry on
\* disk other than the project directories themselves lies in the cache tree.
C10_ProjectUntouched ==
  \A q \in DOMAIN fs : q \in Projects \/ IsPrefix(cache_dir, q)

====
